---- MODULE Spec2Model ----
(***************************************************************************)
(* Model of taggit (src/taggit/taggit.py): the Tag value model and the     *)
(* tag store that reads and writes the tag list extended attribute.        *)
(*                                                                         *)
(* Python strings are sequences of one-character strings, so that          *)
(* str.isnumeric, int, str.upper, str.splitlines and the f-string of       *)
(* Tag.__str__ are computed character by character.  A Python value that   *)
(* may be raised instead of returned is a record [err, val]: err = "none"  *)
(* means the call returned val.                                            *)
(***************************************************************************)
EXTENDS Integers, Sequences, FiniteSets, TLC

VARIABLES
    darwin,      \* _OPERATING_SYSTEM == 'Darwin'
    tagAttr,     \* the TAG_LOCATION extended attribute of the file
    finderInfo,  \* TRUE iff the FINDER_INFO extended attribute is on the file
    pc,          \* position of the running tag store call
    op,          \* the running call: function name and tag argument
    tag_list,    \* local tag_list of add_tag / remove_tag
    tags,        \* local tags of add_tag / remove_tag / _set_tags
    io,          \* xattr calls the running call has made, in order
    outcome,     \* what the call returned or raised
    before,      \* the TAG_LOCATION attribute when the call started
    prev,        \* the call that completed before the running one
    calls,       \* number of tag store calls made so far
    fn,          \* Tag value model: the constructor that was applied
    arg,         \* Tag value model: its argument
    ret,         \* Tag value model: what it returned or raised
    made         \* Tag value model: the Tag that was encoded and parsed back

vars == <<darwin, tagAttr, finderInfo, pc, op, tag_list, tags, io, outcome,
          before, prev, calls, fn, arg, ret, made>>

storeVars == <<tagAttr, finderInfo, pc, op, tag_list, tags, io, outcome,
               before, prev, calls>>

tagVars == <<fn, arg, ret, made>>

----------------------------------------------------------------------------
(* Bounds *)

MaxNameLen == 2     \* longest tag name drawn for the Tag value model
MaxStored == 2      \* longest tag list found on the file at start
MaxCalls == 2       \* tag store calls made one after the other on the file

----------------------------------------------------------------------------
(* Python text *)

LF == "\n"
CR == "\r"
SUP2 == "sup2"      \* the character U+00B2: isnumeric() is true, int() fails

DigitChars == <<"0", "1", "2", "3", "4", "5", "6", "7", "8", "9">>
LowerChars == <<"a", "b", "c", "d", "e", "f", "g", "h", "i", "j", "k", "l", "m",
                "n", "o", "p", "q", "r", "s", "t", "u", "v", "w", "x", "y", "z">>
UpperChars == <<"A", "B", "C", "D", "E", "F", "G", "H", "I", "J", "K", "L", "M",
                "N", "O", "P", "Q", "R", "S", "T", "U", "V", "W", "X", "Y", "Z">>

IsDigit(c) == \E i \in 1..10 : DigitChars[i] = c
DigitVal(c) == (CHOOSE i \in 1..10 : DigitChars[i] = c) - 1

Ok(v) == [err |-> "none", val |-> v]
Raise(e) == [err |-> e, val |-> <<>>]

\* str.isnumeric(): non-empty and every character numeric
isnumeric(s) == Len(s) > 0 /\ \A i \in 1..Len(s) : IsDigit(s[i]) \/ s[i] = SUP2

\* str.upper()
upperChar(c) ==
    IF \E i \in 1..26 : LowerChars[i] = c
    THEN UpperChars[CHOOSE i \in 1..26 : LowerChars[i] = c]
    ELSE c
upper(s) == [i \in 1..Len(s) |-> upperChar(s[i])]

RECURSIVE DecimalValue(_)
DecimalValue(s) ==
    IF s = <<>> THEN 0
    ELSE 10 * DecimalValue(SubSeq(s, 1, Len(s) - 1)) + DigitVal(s[Len(s)])

RECURSIVE DecimalText(_)
DecimalText(n) ==
    IF n < 10 THEN <<DigitChars[n + 1]>>
    ELSE DecimalText(n \div 10) \o <<DigitChars[(n % 10) + 1]>>

\* A colour argument is a Python str or a Python int.
PyStr(s) == [k |-> "str", s |-> s]
PyInt(i) == [k |-> "int", i |-> i]

\* str(color)
str(v) ==
    IF v.k = "str" THEN v.s
    ELSE IF v.i < 0 THEN <<"-">> \o DecimalText(0 - v.i)
    ELSE DecimalText(v.i)

\* int(color), reached only when str(color).isnumeric()
int(v) ==
    IF v.k = "int" THEN Ok(v.i)
    ELSE IF \E i \in 1..Len(v.s) : v.s[i] = SUP2 THEN Raise("ValueError")
    ELSE Ok(DecimalValue(v.s))

IsLineBreak(c) == c = LF \/ c = CR

\* str.splitlines(): breaks at \n, \r and \r\n; no empty last line
RECURSIVE splitlines(_)
splitlines(s) ==
    IF s = <<>> THEN <<>>
    ELSE IF \A i \in 1..Len(s) : ~IsLineBreak(s[i]) THEN <<s>>
    ELSE LET i == CHOOSE j \in 1..Len(s) :
                      /\ IsLineBreak(s[j])
                      /\ \A h \in 1..(j - 1) : ~IsLineBreak(s[h])
             w == IF s[i] = CR /\ i < Len(s) /\ s[i + 1] = LF THEN 2 ELSE 1
         IN  <<SubSeq(s, 1, i - 1)>> \o splitlines(SubSeq(s, i + w, Len(s)))

----------------------------------------------------------------------------
(* Tag *)

NONE == <<"N", "O", "N", "E">>
GRAY == <<"G", "R", "A", "Y">>
GREEN == <<"G", "R", "E", "E", "N">>
PURPLE == <<"P", "U", "R", "P", "L", "E">>
BLUE == <<"B", "L", "U", "E">>
YELLOW == <<"Y", "E", "L", "L", "O", "W">>
RED == <<"R", "E", "D">>
ORANGE == <<"O", "R", "A", "N", "G", "E">>

_COLOR_TO_CODE_MAPPING ==
    (NONE :> 0) @@ (GRAY :> 1) @@ (GREEN :> 2) @@ (PURPLE :> 3) @@
    (BLUE :> 4) @@ (YELLOW :> 5) @@ (RED :> 6) @@ (ORANGE :> 7)

_CODE_TO_COLOR_MAPPING ==
    [v \in {_COLOR_TO_CODE_MAPPING[k] : k \in DOMAIN _COLOR_TO_CODE_MAPPING} |->
        CHOOSE k \in DOMAIN _COLOR_TO_CODE_MAPPING : _COLOR_TO_CODE_MAPPING[k] = v]

\* The two tables are bound only when the module was loaded on Darwin; a
\* reference to them elsewhere raises NameError.
_map_color_to_string(color) ==
    IF isnumeric(str(color))
    THEN IF int(color).err # "none" THEN int(color)
         ELSE IF ~darwin THEN Raise("NameError")
         ELSE IF int(color).val \in DOMAIN _CODE_TO_COLOR_MAPPING
              THEN Ok(_CODE_TO_COLOR_MAPPING[int(color).val])
              ELSE Ok(_CODE_TO_COLOR_MAPPING[0])
    ELSE IF color.k # "str" THEN Raise("AttributeError")
         ELSE IF ~darwin THEN Raise("NameError")
         ELSE IF upper(color.s) \in DOMAIN _COLOR_TO_CODE_MAPPING
              THEN Ok(upper(color.s))
              ELSE Ok(NONE)

MapCodeUnchecked(color) ==
    IF ~isnumeric(str(color))
    THEN IF color.k # "str" THEN Raise("AttributeError")
         ELSE IF ~darwin THEN Raise("NameError")
         ELSE IF upper(color.s) \in DOMAIN _COLOR_TO_CODE_MAPPING
              THEN Ok(_COLOR_TO_CODE_MAPPING[upper(color.s)])
              ELSE Ok(_COLOR_TO_CODE_MAPPING[NONE])
    ELSE IF int(color).err # "none" THEN int(color)
         ELSE IF ~darwin THEN Raise("NameError")
         ELSE Ok(int(color).val)

_map_color_to_code(color) ==
    IF ~isnumeric(str(color))
    THEN IF color.k # "str" THEN Raise("AttributeError")
         ELSE IF ~darwin THEN Raise("NameError")
         ELSE IF upper(color.s) \in DOMAIN _COLOR_TO_CODE_MAPPING
              THEN Ok(_COLOR_TO_CODE_MAPPING[upper(color.s)])
              ELSE Ok(_COLOR_TO_CODE_MAPPING[NONE])
    ELSE IF int(color).err # "none" THEN int(color)
         ELSE IF ~darwin THEN Raise("NameError")
         ELSE IF int(color).val \in DOMAIN _CODE_TO_COLOR_MAPPING
              THEN Ok(int(color).val)
              ELSE Ok(0)

\* Tag.__init__: color first, then color_code; a raise ends the constructor
NewTag(name, color, color_code) ==
    IF color.err # "none" THEN color
    ELSE IF color_code.err # "none" THEN color_code
    ELSE Ok([name |-> name, color |-> color.val, color_code |-> color_code.val])

Tag(name, color) ==
    NewTag(name, _map_color_to_string(color), _map_color_to_code(color))

\* Tag.__str__
__str__(t) == t.name \o <<LF>> \o DecimalText(t.color_code)

\* Tag.__eq__
__eq__(t, other) ==
    t.name = other.name /\ t.color = other.color
        /\ t.color_code = other.color_code

\* name, color = string_tag.splitlines(): needs exactly two lines
TagOfLines(lines) ==
    IF Len(lines) # 2 THEN Raise("ValueError")
    ELSE Tag(lines[1], PyStr(lines[2]))

\* Tag.from_string
from_string(string_tag) ==
    IF \E i \in 1..Len(string_tag) : string_tag[i] = LF
    THEN TagOfLines(splitlines(string_tag))
    ELSE Tag(string_tag, PyStr(NONE))

\* Tag.from_tuple; a tuple is [name, rest]: tag_tup[0] and the elements after
from_tuple(tag_tup) ==
    IF 1 + Len(tag_tup.rest) = 1 THEN Tag(tag_tup.name, PyInt(0))
    ELSE Tag(tag_tup.name, tag_tup.rest[1])

----------------------------------------------------------------------------
(* Arguments drawn for the Tag value model *)

MaxColorInt == 9    \* largest int drawn as a colour argument

NameChars == {"a", LF, CR}

RECURSIVE SeqsUpTo(_, _)
SeqsUpTo(S, n) ==
    IF n = 0 THEN {<<>>}
    ELSE SeqsUpTo(S, n - 1) \cup
         {Append(q, x) : q \in {r \in SeqsUpTo(S, n - 1) : Len(r) = n - 1}, x \in S}

Names == SeqsUpTo(NameChars, MaxNameLen)

ColorTexts ==
    DOMAIN _COLOR_TO_CODE_MAPPING \cup
    { <<"b", "l", "u", "e">>, <<"R", "e", "d">>, <<"t", "e", "a", "l">>, <<>>,
      <<"0">>, <<"4">>, <<"7">>, <<"8">>, <<"1", "0">>, <<"0", "0", "7">>,
      <<"-", "1">>, <<SUP2>> }

ColorInputs ==
    {PyStr(s) : s \in ColorTexts} \cup {PyInt(i) : i \in {0 - 1} \cup 0..MaxColorInt}

idleOp == [name |-> "none", tag |-> PyStr(<<>>)]
noCall == [name |-> "none", tag |-> PyStr(<<>>), err |-> "none", had |-> FALSE]

StoreAtRest ==
    /\ tagAttr = [st |-> "absent", v |-> <<>>]
    /\ finderInfo = FALSE
    /\ pc = "idle"
    /\ op = idleOp
    /\ tag_list = <<>>
    /\ tags = <<>>
    /\ io = <<>>
    /\ outcome = Ok(<<>>)
    /\ before = [tags |-> tagAttr, finder |-> finderInfo]
    /\ prev = noCall
    /\ calls = 0

\* The Tag value model is exercised where its tables exist (Darwin).
InitTag ==
    /\ darwin = TRUE
    /\ StoreAtRest
    /\ fn = "none"
    /\ arg \in [name : Names, color : ColorInputs]
    /\ ret = Ok(<<>>)
    /\ made = <<>>

Construct ==
    /\ fn = "none"
    /\ fn' = "Tag"
    /\ ret' = Tag(arg.name, arg.color)
    /\ UNCHANGED <<darwin, storeVars, arg, made>>

ParseFromPair ==
    /\ fn = "none"
    /\ fn' = "from_tuple"
    /\ \E rest \in {<<>>, <<arg.color>>} :
           ret' = from_tuple([name |-> arg.name, rest |-> rest])
    /\ UNCHANGED <<darwin, storeVars, arg, made>>

ParseFromEncodedString ==
    /\ fn = "none"
    /\ fn' = "from_string"
    /\ \E text \in {arg.name, arg.name \o <<LF>> \o str(arg.color)} :
           ret' = from_string(text)
    /\ UNCHANGED <<darwin, storeVars, arg, made>>

\* from_string(str(tag)) of a Tag that Tag(name, color) returned
RoundTrip ==
    /\ fn = "Tag"
    /\ ret.err = "none"
    /\ fn' = "roundtrip"
    /\ made' = ret.val
    /\ ret' = from_string(__str__(ret.val))
    /\ UNCHANGED <<darwin, storeVars, arg>>

NextTag == Construct \/ ParseFromPair \/ ParseFromEncodedString \/ RoundTrip

SpecTag == InitTag /\ [][NextTag]_vars

----------------------------------------------------------------------------
(* Properties of the Tag value model *)

IsColorName(c) == c.k = "str" /\ upper(c.s) \in DOMAIN _COLOR_TO_CODE_MAPPING

IsColorCode(c) ==
    \/ c.k = "int" /\ c.i \in 0..7
    \/ /\ c.k = "str"
       /\ Len(c.s) > 0
       /\ \A i \in 1..Len(c.s) : IsDigit(c.s[i])
       /\ DecimalValue(c.s) \in 0..7

\* C4: parsing the encoded string of a Tag that Tag(name, color) returned
\* gives back a Tag equal to it (same name, color and color_code).
C4_RoundTripEqual ==
    fn = "roundtrip" => ret.err = "none" /\ __eq__(ret.val, made)

\* C5: for a colour argument that is neither one of the 8 colour names (in
\* any case) nor a code in 0..7, Tag(name, color) returns a Tag with
\* color "NONE" and color_code 0.
C5_InvalidColorFallsBack ==
    (fn = "Tag" /\ ~IsColorName(arg.color) /\ ~IsColorCode(arg.color))
        => (ret.err = "none" /\ ret.val.color = NONE /\ ret.val.color_code = 0)

ColorTable == <<NONE, GRAY, GREEN, PURPLE, BLUE, YELLOW, RED, ORANGE>>

\* C6: every Tag returned by Tag(), from_string or from_tuple has a
\* color_code in 0..7 and the color that the table gives for that code.
C6_ColorAndCodeAgree ==
    (fn # "none" /\ ret.err = "none")
        => (ret.val.color_code \in 0..7
            /\ ret.val.color = ColorTable[ret.val.color_code + 1])

C6_Witness ==
    /\ fn = "Tag"
    /\ arg.color = PyStr(<<"b", "l", "u", "e">>)
    /\ ret.err = "none"
    /\ ret.val.color = BLUE
    /\ ret.val.color_code = 4

----------------------------------------------------------------------------
(* Tag store *)

TagObj(t) == [k |-> "Tag", t |-> t]
PyTuple(name, rest) == [k |-> "tuple", name |-> name, rest |-> rest]
PyList(items) == [k |-> "list", items |-> items]

\* a Tag that a constructor returned, as an element of tag_list
Returned(r) == IF r.err # "none" THEN r ELSE Ok(TagObj(r.val))

\* _generate_tag: a str is parsed, a tuple is parsed, anything else is
\* returned as it is
_generate_tag(tag) ==
    IF tag.k = "str" THEN Returned(from_string(tag.s))
    ELSE IF tag.k = "tuple" THEN Returned(from_tuple(tag))
    ELSE Ok(tag)

\* str(tag) of an element of tag_list
strOf(x) == IF x.k = "Tag" THEN __str__(x.t) ELSE str(x)

\* [f(t) for t in items]: the first raise ends the comprehension
RECURSIVE Comprehension(_, _)
Comprehension(results, n) ==
    IF n = 0 THEN Ok(<<>>)
    ELSE LET head == Comprehension(results, n - 1)
         IN  IF head.err # "none" THEN head
             ELSE IF results[n].err # "none" THEN Raise(results[n].err)
             ELSE Ok(Append(head.val, results[n].val))

\* except TypeError: sys.exit(1), around the single tag only
ExitOnTypeError(tag, r) ==
    IF tag.k # "list" /\ r.err = "TypeError" THEN Raise("SystemExit") ELSE r

GenerateAll(items) ==
    Comprehension([i \in 1..Len(items) |-> _generate_tag(items[i])], Len(items))

\* add_tag / remove_tag, up to the read: a list is normalised element by
\* element, a single tag inside try / except TypeError
NormalizeArgument(tag) ==
    ExitOnTypeError(tag, GenerateAll(IF tag.k = "list" THEN tag.items ELSE <<tag>>))

\* _get_raw_tags: xattr.getxattr raises OSError when the attribute is not
\* there; plistlib.loads raises on bytes that are not a plist
_get_raw_tags(attr) ==
    IF darwin
    THEN IF attr.st = "absent" THEN Ok(<<>>)
         ELSE IF attr.st = "corrupt" THEN Raise("InvalidFileException")
         ELSE Ok(attr.v)
    ELSE Ok(<<>>)

ReadEvents == IF darwin THEN <<"getxattr">> ELSE <<>>

\* for tag in tag_list: if str(tag) not in tags: tags.append(str(tag))
RECURSIVE AppendMissing(_, _)
AppendMissing(ts, tl) ==
    IF tl = <<>> THEN ts
    ELSE AppendMissing(
             IF \E i \in 1..Len(ts) : ts[i] = strOf(Head(tl))
             THEN ts ELSE Append(ts, strOf(Head(tl))),
             Tail(tl))

\* tags.pop(tags.index(s))
PopFirst(ts, s) ==
    LET i == CHOOSE j \in 1..Len(ts) :
                 ts[j] = s /\ \A h \in 1..(j - 1) : ts[h] # s
    IN  SubSeq(ts, 1, i - 1) \o SubSeq(ts, i + 1, Len(ts))

\* for tag in tag_list: if str(tag) in tags: tags.pop(tags.index(str(tag)))
RECURSIVE PopPresent(_, _)
PopPresent(ts, tl) ==
    IF tl = <<>> THEN ts
    ELSE PopPresent(
             IF \E i \in 1..Len(ts) : ts[i] = strOf(Head(tl))
             THEN PopFirst(ts, strOf(Head(tl))) ELSE ts,
             Tail(tl))

ParseAll(ts) ==
    Comprehension([i \in 1..Len(ts) |-> from_string(ts[i])], Len(ts))

EncodeAll(r) ==
    IF r.err # "none" THEN r
    ELSE Ok([i \in 1..Len(r.val) |-> __str__(r.val[i])])

\* _set_tags, the comprehension: tags holds str only, so every entry goes
\* through str(Tag.from_string(t))
Reencode(ts) == EncodeAll(ParseAll(ts))

ParseRaw(raw) == IF raw.err # "none" THEN raw ELSE ParseAll(raw.val)

\* get_tags
get_tags(attr) == ParseRaw(_get_raw_tags(attr))

----------------------------------------------------------------------------
(* Files and arguments drawn for the tag store *)

Work == <<"W", "o", "r", "k">>
WorkBLUE == Work \o <<LF>> \o BLUE
ThreeLines == <<"a", LF, "b", LF, "0">>

StoredStrings == {Work, WorkBLUE, ThreeLines}

StoredAttrs ==
    {[st |-> "absent", v |-> <<>>], [st |-> "corrupt", v |-> <<>>]} \cup
    {[st |-> "list", v |-> l] : l \in SeqsUpTo(StoredStrings, MaxStored)}

WorkBlueTag == [name |-> Work, color |-> BLUE, color_code |-> 4]

TagArguments ==
    { PyStr(Work), PyStr(<<"a", CR>>), PyTuple(Work, <<PyInt(4)>>),
      TagObj(WorkBlueTag), PyInt(5),
      PyList(<<PyStr(WorkBLUE), PyTuple(Work, <<>>)>>),
      PyList(<<PyStr(Work), PyInt(5)>>) }

\* A Tag object exists only where Tag() can return one.
HoldsTagObj(tag) ==
    \/ tag.k = "Tag"
    \/ tag.k = "list" /\ \E i \in 1..Len(tag.items) : tag.items[i].k = "Tag"

Snapshot == [tags |-> tagAttr, finder |-> finderInfo]

Init ==
    /\ darwin \in BOOLEAN
    /\ tagAttr \in StoredAttrs
    /\ finderInfo \in BOOLEAN
    /\ pc = "idle"
    /\ op = idleOp
    /\ tag_list = <<>>
    /\ tags = <<>>
    /\ io = <<>>
    /\ outcome = Ok(<<>>)
    /\ before = Snapshot
    /\ prev = noCall
    /\ calls = 0
    /\ fn = "none"
    /\ arg = [name |-> <<>>, color |-> PyInt(0)]
    /\ ret = Ok(<<>>)
    /\ made = <<>>

\* add_tag / remove_tag, the lines before the read; r is the normalised
\* argument
Enter(name, tag, r) ==
    /\ pc = "idle"
    /\ calls < MaxCalls
    /\ calls' = calls + 1
    /\ HoldsTagObj(tag) => darwin
    /\ op' = [name |-> name, tag |-> tag]
    /\ before' = Snapshot
    /\ io' = <<>>
    /\ outcome' = [r EXCEPT !.val = <<>>]
    /\ tag_list' = r.val
    /\ pc' = IF r.err # "none" THEN "done" ELSE "read"
    /\ UNCHANGED <<darwin, tagAttr, finderInfo, tags, prev, tagVars>>

CallAddTag ==
    /\ op.name = "none"
    /\ \E tag \in TagArguments : Enter("add_tag", tag, NormalizeArgument(tag))

CallRemoveTag ==
    /\ op.name = "none"
    /\ \E tag \in TagArguments : Enter("remove_tag", tag, NormalizeArgument(tag))

\* remove_all_tags: _set_tags([], file)
CallRemoveAllTags ==
    /\ pc = "idle"
    /\ calls < MaxCalls
    /\ calls' = calls + 1
    /\ op' = [name |-> "remove_all_tags", tag |-> PyStr(<<>>)]
    /\ before' = Snapshot
    /\ io' = <<>>
    /\ outcome' = Ok(<<>>)
    /\ tag_list' = <<>>
    /\ tags' = <<>>
    /\ pc' = "set"
    /\ UNCHANGED <<darwin, tagAttr, finderInfo, prev, tagVars>>

\* get_tags(file)
CallGetTags ==
    /\ pc = "idle"
    /\ calls < MaxCalls
    /\ calls' = calls + 1
    /\ op' = [name |-> "get_tags", tag |-> PyStr(<<>>)]
    /\ before' = Snapshot
    /\ io' = ReadEvents
    /\ outcome' = get_tags(tagAttr)
    /\ tag_list' = <<>>
    /\ tags' = <<>>
    /\ pc' = "done"
    /\ UNCHANGED <<darwin, tagAttr, finderInfo, prev, tagVars>>

\* tags = _get_raw_tags(file), then the loop of add_tag or remove_tag
ReadAndUpdate(raw, appending) ==
    /\ pc = "read"
    /\ io' = io \o ReadEvents
    /\ pc' = IF raw.err # "none" THEN "done" ELSE "set"
    /\ outcome' = IF raw.err # "none" THEN raw ELSE outcome
    /\ tags' = IF raw.err # "none" THEN <<>>
               ELSE IF appending THEN AppendMissing(raw.val, tag_list)
               ELSE PopPresent(raw.val, tag_list)
    /\ UNCHANGED <<darwin, tagAttr, finderInfo, op, tag_list, before, prev,
                   calls, tagVars>>

ReadAndAppend == op.name = "add_tag" /\ ReadAndUpdate(_get_raw_tags(tagAttr), TRUE)

ReadAndPop == op.name = "remove_tag" /\ ReadAndUpdate(_get_raw_tags(tagAttr), FALSE)

\* _set_tags where _OPERATING_SYSTEM is not 'Darwin': nothing is done
SetTagsElsewhere ==
    /\ pc = "set"
    /\ ~darwin
    /\ pc' = "done"
    /\ UNCHANGED <<darwin, tagAttr, finderInfo, op, tag_list, tags, io,
                   outcome, before, prev, calls, tagVars>>

KeepFinderInfo ==
    /\ pc = "set"
    /\ darwin
    /\ io' = io \o <<"listxattr">>
    /\ pc' = "write"
    /\ UNCHANGED <<darwin, tagAttr, finderInfo, op, tag_list, tags, outcome,
                   before, prev, calls, tagVars>>

\* _set_tags on Darwin, first statement: _delete_existing_finder_info(file)
_delete_existing_finder_info ==
    /\ pc = "set"
    /\ darwin
    /\ io' = io \o (IF finderInfo THEN <<"listxattr", "removexattr">>
                    ELSE <<"listxattr">>)
    /\ finderInfo' = FALSE
    /\ pc' = "write"
    /\ UNCHANGED <<darwin, tagAttr, op, tag_list, tags, outcome, before, prev,
                   calls, tagVars>>

\* dump and setxattr of the re-encoded list r, unless the re-encoding raised
WriteTags(r) ==
    /\ pc = "write"
    /\ outcome' = IF r.err # "none" THEN r ELSE outcome
    /\ tags' = IF r.err # "none" THEN tags ELSE r.val
    /\ tagAttr' = IF r.err # "none" THEN tagAttr ELSE [st |-> "list", v |-> r.val]
    /\ io' = IF r.err # "none" THEN io ELSE Append(io, "setxattr")
    /\ pc' = "done"
    /\ UNCHANGED <<darwin, finderInfo, op, tag_list, before, prev, calls,
                   tagVars>>

\* _set_tags on Darwin, the rest: re-encode every entry, dump, setxattr
_set_tags ==
    /\ darwin
    /\ WriteTags(Reencode(tags))

Among(listed, wanted) ==
    /\ listed.err = "none"
    /\ wanted.err = "none"
    /\ \E i \in 1..Len(listed.val) : __eq__(listed.val[i], wanted.val.t)

\* The tag argument, parsed, was among get_tags(file) when the call started.
HadTag(attr, tag) ==
    /\ tag.k \in {"str", "tuple", "Tag"}
    /\ Among(get_tags(attr), _generate_tag(tag))

\* The call returns (or its exception leaves it); its locals are gone.
Return ==
    /\ pc = "done"
    /\ pc' = "idle"
    /\ prev' = [name |-> op.name, tag |-> op.tag, err |-> outcome.err,
                had |-> HadTag(before.tags, op.tag)]
    /\ op' = idleOp
    /\ tag_list' = <<>>
    /\ tags' = <<>>
    /\ io' = <<>>
    /\ outcome' = Ok(<<>>)
    /\ before' = [tags |-> tagAttr, finder |-> finderInfo]
    /\ UNCHANGED <<darwin, tagAttr, finderInfo, calls, tagVars>>

Next ==
    \/ CallAddTag
    \/ CallRemoveTag
    \/ CallRemoveAllTags
    \/ CallGetTags
    \/ ReadAndAppend
    \/ ReadAndPop
    \/ SetTagsElsewhere
    \/ _delete_existing_finder_info
    \/ _set_tags
    \/ Return

Spec == Init /\ [][Next]_vars

----------------------------------------------------------------------------
(* Properties of the tag store *)

Wrote == \E i \in 1..Len(io) : io[i] = "setxattr"

Mutation == op.name \in {"add_tag", "remove_tag", "remove_all_tags"}

NoTwoEqual(l) == \A i, j \in 1..Len(l) : l[i] = l[j] => i = j

IsTagShape(x) == x.k \in {"Tag", "str", "tuple"}

BadShape(tag) ==
    IF tag.k = "list"
    THEN \E i \in 1..Len(tag.items) : ~IsTagShape(tag.items[i])
    ELSE ~IsTagShape(tag)

\* C1: on Darwin, the list that add_tag, remove_tag or remove_all_tags has
\* written to the tag list attribute holds no string twice.
C1_NoDuplicateWritten ==
    (darwin /\ pc = "done" /\ Mutation /\ Wrote) => NoTwoEqual(tagAttr.v)

\* C2: get_tags called after remove_tag(t, file) returned, where t was among
\* get_tags(file) before the removal, returns no Tag whose encoded string is
\* that of t.
C2_RemovedTagNotListed ==
    (/\ pc = "done" /\ op.name = "get_tags" /\ outcome.err = "none"
     /\ prev.name = "remove_tag" /\ prev.err = "none" /\ prev.had)
        => \A i \in 1..Len(outcome.val) :
               __str__(outcome.val[i]) # strOf(_generate_tag(prev.tag).val)

\* C3: where the platform is not Darwin every call, given a str, a tuple, a
\* Tag or a list of these, returns normally and leaves both attributes as
\* they were, and get_tags returns the empty list.
C3_NoOpElsewhere ==
    (~darwin /\ pc = "done" /\ ~BadShape(op.tag))
        => (/\ outcome.err = "none"
            /\ Snapshot = before
            /\ op.name = "get_tags" => outcome.val = <<>>)

\* C7: add_tag(t, file) called again right after add_tag(t, file) returned,
\* for t a str, a tuple, a Tag or a list of these, leaves the stored tag list
\* exactly as the first call left it.
C7_AddTagTwice ==
    (/\ pc = "done" /\ op.name = "add_tag" /\ outcome.err = "none"
     /\ ~BadShape(op.tag)
     /\ prev.name = "add_tag" /\ prev.err = "none" /\ prev.tag = op.tag)
        => tagAttr = before.tags

\* C8: on Darwin, add_tag and remove_tag given something that is neither a
\* Tag, a str nor a tuple (alone or inside the list) end with an error and
\* write no attribute: both attributes of the file are as before.
C8_BadShapeAborts ==
    (/\ darwin /\ pc = "done" /\ op.name \in {"add_tag", "remove_tag"}
     /\ BadShape(op.tag))
        => (outcome.err # "none" /\ ~Wrote /\ Snapshot = before)

\* C9: on Darwin get_tags never raises; it returns the empty list when the
\* attribute is absent or cannot be decoded, and otherwise one Tag for each
\* stored entry, in stored order.
C9_GetTagsNeverFails ==
    (darwin /\ pc = "done" /\ op.name = "get_tags")
        => (/\ outcome.err = "none"
            /\ before.tags.st # "list" => outcome.val = <<>>
            /\ before.tags.st = "list" =>
                   /\ Len(outcome.val) = Len(before.tags.v)
                   /\ \A i \in 1..Len(outcome.val) :
                          from_string(before.tags.v[i]) = Ok(outcome.val[i]))

\* C10: within one call the tag list attribute is read at most once and set
\* at most once; the set is the last xattr call, it comes after the read and
\* after the lookup (and removal) of the FinderInfo attribute, and once the
\* tag list is set the FinderInfo attribute is not on the file.
C10_WriteOrdering ==
    /\ Cardinality({i \in 1..Len(io) : io[i] = "getxattr"}) <= 1
    /\ Cardinality({i \in 1..Len(io) : io[i] = "setxattr"}) <= 1
    /\ \A i \in 1..Len(io) :
           io[i] = "setxattr" =>
               /\ i = Len(io)
               /\ \E j \in 1..(i - 1) : io[j] = "listxattr"
               /\ before.finder => \E j \in 1..(i - 1) : io[j] = "removexattr"
    /\ Wrote => ~finderInfo

C10_Witness ==
    /\ pc = "done"
    /\ op.name = "add_tag"
    /\ before.finder
    /\ io = <<"getxattr", "listxattr", "removexattr", "setxattr">>
    /\ ~finderInfo

====
